---------------------------- MODULE Spec2Model ----------------------------
(***************************************************************************)
(* A model of the bpf-script compiler (src/src/compiler.rs).               *)
(*                                                                         *)
(* The state is the Compiler struct: the symbol table `variables`, the     *)
(* instruction list `instructions`, the stack counter `stack` and the      *)
(* diagnostic line counter `expr_num`.  The operations are the public      *)
(* entry points `capture` and `compile`.  `compile` is a synchronous       *)
(* handler; `pc` is its position: the prologue (BeginCompile), one         *)
(* iteration of emit_body's loop per statement (Statement), and the        *)
(* implicit return plus the optimizer pass (EndCompile).  Nothing else can *)
(* run while pc = "body".                                                  *)
(*                                                                         *)
(* Every emit_* function of the source is an operator over a context       *)
(* record holding the four fields of the struct, the error of a `bail!`    *)
(* (err, "" while Ok) and the function's return value (off, ty).           *)
(***************************************************************************)
EXTENDS Integers, Sequences, FiniteSets, TLC

\* ------------------------------------------------------------------ bounds

\* Calls of capture and compile plus statements lowered, over the life of
\* one compiler instance.
MaxOps == 3

\* ------------------------------------------------------- machine integers

\* Numbers of up to 32 bits are integers.  A 64-bit value is the pair of its
\* two 32-bit halves, each read as an i32: -1 is (hi -1, lo -1), 2^32 + 7
\* is (hi 1, lo 7).  Script literals, sizes and offsets stay below 2^31, so
\* u32 arithmetic on them never wraps and `as i32` keeps them.
I64(hi, lo) == [hi |-> hi, lo |-> lo]

\* `x as i64` of a non-negative number below 2^31, and of a u32 given by
\* its bits: the upper half is zero.
ZeroExtend(x) == I64(0, x)

\* `x as u32` of an i64: the lower half.
AsU32(x) == x.lo

AsI16(x) == LET m == x % 65536 IN IF m >= 32768 THEN m - 65536 ELSE m

AsI8(x) == LET m == x % 256 IN IF m >= 128 THEN m - 256 ELSE m

\* Whether FromStr accepts the literal `imm` (below 2^31) for the integer
\* type of `sz` bytes: u32, i64 and u64 hold every such literal.
Fits(imm, sz, is_signed) ==
    CASE sz = 1 /\ ~is_signed -> imm <= 255
      [] sz = 1 /\ is_signed -> imm <= 127
      [] sz = 2 /\ ~is_signed -> imm <= 65535
      [] sz = 2 /\ is_signed -> imm <= 32767
      [] sz = 4 /\ is_signed -> imm <= 2147483647
      [] OTHER -> TRUE

\* --------------------------------------------------------- qualified types

\* btf::types::Type, by its tag: the fields a tag does not use are empty.
VoidType == [kind |-> "void", size |-> 0, signed |-> FALSE, members |-> <<>>,
             elem |-> "", count |-> 0]

IntType(sz, sg) == [VoidType EXCEPT !.kind = "int", !.size = sz, !.signed = sg]

StructType(sz, ms) == [VoidType EXCEPT !.kind = "struct", !.size = sz, !.members = ms]

ArrayType(el, n) == [VoidType EXCEPT !.kind = "array", !.elem = el, !.count = n]

\* QualifiedType: a base type and the number of pointer indirections.
QType(b, r) == [base |-> b, refs |-> r]

\* QualifiedType::default(): the inferred type of an undeclared variable.
DefaultType == QType(VoidType, 0)

\* QualifiedType::int::<T>().
QInt(sz, sg) == QType(IntType(sz, sg), 0)

\* The BTF type library bound to the compiler: type id -> qualified type.
\* iovec is the struct of tests::assign_fields (two 8-byte fields); buf holds
\* an array of 32 8-byte integers and is large enough for two of them to
\* fill the 512-byte frame; s15 is a struct of 15 bytes.
TypeDB ==
    [id \in {"u8", "int", "__u64", "voidp", "iovec", "u64x32", "buf", "s15"} |->
        CASE id = "u8" -> QInt(1, FALSE)
          [] id = "int" -> QInt(4, TRUE)
          [] id = "__u64" -> QInt(8, FALSE)
          [] id = "voidp" -> QType(VoidType, 1)
          [] id = "iovec" ->
                QType(StructType(16,
                    [m \in {"iov_base", "iov_len"} |->
                        IF m = "iov_base" THEN [offset |-> 0, type_id |-> "voidp"]
                        ELSE [offset |-> 64, type_id |-> "__u64"]]), 0)
          [] id = "u64x32" -> QType(ArrayType("__u64", 32), 0)
          [] id = "s15" ->
                QType(StructType(15,
                    [m \in {"tag"} |-> [offset |-> 0, type_id |-> "u8"]]), 0)
          [] OTHER ->
                QType(StructType(256,
                    [m \in {"data"} |-> [offset |-> 0, type_id |-> "u64x32"]]), 0)]

\* Pointer and array types are anonymous in BTF: only these resolve by name.
NamedTypes == {"u8", "int", "__u64", "iovec", "buf", "s15"}

is_pointer(t) == t.refs > 0

RECURSIVE get_size(_)
get_size(t) ==
    IF t.refs > 0 THEN 8
    ELSE IF t.base.kind = "array"
         THEN get_size(TypeDB[t.base.elem]) * t.base.count
         ELSE t.base.size

\* ------------------------------------------------------------ instructions

\* bpf_ins::Instruction, by constructor; unused operands are 0 / "".  imm is
\* the immediate, or the lower half of a 64-bit one whose upper half is hi.
Ins(op, dst, src, off, imm, lt) ==
    [op |-> op, dst |-> dst, src |-> src, off |-> off, imm |-> imm, hi |-> 0,
     lt |-> lt]

R0 == 0
R1 == 1
R2 == 2
R3 == 3
R6 == 6
R10 == 10

StoreOp(sz) == CASE sz = 1 -> "store8" [] sz = 2 -> "store16"
                 [] sz = 4 -> "store32" [] OTHER -> "store64"

LoadxOp(sz) == CASE sz = 1 -> "loadx8" [] sz = 2 -> "loadx16"
                 [] sz = 4 -> "loadx32" [] OTHER -> "loadx64"

store(sz, off, imm) == Ins(StoreOp(sz), R10, 0, off, imm, "")
store64(off, v) == [Ins("store64", R10, 0, off, v.lo, "") EXCEPT !.hi = v.hi]
storex64(off, reg) == Ins("storex64", R10, reg, off, 0, "")
loadx(sz, dst, src, off) == Ins(LoadxOp(sz), dst, src, off, 0, "")
movx64(dst, src) == Ins("movx64", dst, src, 0, 0, "")
mov64(dst, imm) == Ins("mov64", dst, 0, 0, imm, "")
add64(dst, imm) == Ins("add64", dst, 0, 0, imm, "")
loadtype(dst, v, lt) == [Ins("loadtype", dst, 0, 0, v.lo, lt) EXCEPT !.hi = v.hi]
call(id) == Ins("call", 0, 0, 0, id, "")
exit == Ins("exit", 0, 0, 0, 0, "")

\* ----------------------------------------------------------------- helpers

\* Helpers::from_string: the catalog of callable helpers, name -> id.
HelperIds ==
    [h \in {"get_current_uid_gid", "map_lookup_elem"} |->
        IF h = "get_current_uid_gid" THEN 15 ELSE 1]

ProbeReadKernel == 113

\* Helpers::get_arg_types: the load-type hint of each of the five argument
\* registers.
get_arg_types(h) ==
    IF h = "map_lookup_elem" THEN <<"Map", "Void", "Void", "Void", "Void">>
    ELSE <<"Void", "Void", "Void", "Void", "Void">>

\* ----------------------------------------------------------------- context

\* Option<i16>.
NoneOff == [some |-> FALSE, v |-> 0]
SomeOff(o) == [some |-> TRUE, v |-> o]

\* The compiler's fields, the error of the first bail! ("" while Ok), the
\* value returned by the function that ran last (off, ty), and a record of
\* the calls made during the step (pushes: every push_stack call; argregs:
\* the registers emit_call lowered arguments into; binds: the names given
\* to variables.insert).
Ctx(vs, is, st, ln) ==
    [variables |-> vs, instructions |-> is, stack |-> st, expr_num |-> ln,
     err |-> "", off |-> 0, ty |-> DefaultType, pushes |-> <<>>, argregs |-> {},
     binds |-> <<>>]

Ok(c) == c.err = ""

Fail(c, e) == [c EXCEPT !.err = e]

Emit(c, ins) == [c EXCEPT !.instructions = Append(@, ins)]

\* The `?` of Rust: go on with the context of a call that returned Ok,
\* return the error of one that failed.
Then(c, F(_)) == IF c.err = "" THEN F(c) ELSE c

RetType(c, t) == [c EXCEPT !.ty = t]

\* VariableInfo.
StackVar(t, o) == [var_type |-> t, location |-> [kind |-> "Stack", v |-> o]]
ImmVar(t, v) == [var_type |-> t, location |-> [kind |-> "SpecialImmediate", v |-> v]]

\* HashMap::insert: adds the entry or replaces the one of the same name.
Insert(vs, name, info) ==
    [n \in DOMAIN vs \cup {name} |-> IF n = name THEN info ELSE vs[n]]

\* self.variables.insert(name, VariableInfo { var_type, Stack(offset) })
InsertStack(c, name, var_type, offset) ==
    [c EXCEPT !.variables = Insert(@, name, StackVar(var_type, offset)),
              !.binds = Append(@, name)]

\* ------------------------------------------------------------------ stack

StackLimit == 512

get_stack(st) == -AsI16(st)

push_stack_small(c, sz) ==
    LET ok == c.stack + sz < StackLimit
        st == IF ok THEN c.stack + sz ELSE c.stack
        rec == [before |-> c.stack, n |-> sz, ok |-> ok, after |-> st,
                ret |-> get_stack(st)]
    IN  IF ok THEN [c EXCEPT !.stack = st, !.off = get_stack(st),
                             !.pushes = Append(@, rec)]
        ELSE [c EXCEPT !.err = "stack", !.pushes = Append(@, rec)]

push_stack(c, sz) ==
    LET ok == ~(c.stack + sz > StackLimit)
        st == IF ok THEN c.stack + sz ELSE c.stack
        rec == [before |-> c.stack, n |-> sz, ok |-> ok, after |-> st,
                ret |-> get_stack(st)]
    IN  IF ok THEN [c EXCEPT !.stack = st, !.off = get_stack(st),
                             !.pushes = Append(@, rec)]
        ELSE [c EXCEPT !.err = "stack", !.pushes = Append(@, rec)]

\* v64 of emit_init_stack: the byte `value` (an i8 parsed from an unsigned
\* literal, so 0..127) repeated over the eight bytes of a word.
Tile_untiled(value) == I64(0, value)

Tile(value) == I64(value * 16843009, value * 16843009)

\* The four loops of emit_init_stack, from the one storing `chunk` bytes.
RECURSIVE InitChunks(_, _, _, _)
InitChunks(offset, v64, size, chunk) ==
    LET n == size \div chunk
        here == [k \in 1..n |->
                    LET o == offset + chunk * (k - 1)
                    IN  CASE chunk = 8 -> store64(o, v64)
                          [] chunk = 4 -> store(4, o, v64.lo)
                          [] chunk = 2 -> store(2, o, AsI16(v64.lo))
                          [] OTHER -> store(1, o, AsI8(v64.lo))]
    IN  IF chunk = 1 THEN here
        ELSE here \o InitChunks(offset + chunk * n, v64, size - chunk * n, chunk \div 2)

emit_init_stack(c, offset, value, size) ==
    [c EXCEPT !.instructions = @ \o InitChunks(offset, Tile(value), size, 8)]

\* parse_immediate::<T>: the literal is a string of decimal digits, here the
\* number it denotes; T is the integer type of `sz` bytes.
parse_immediate(c, imm, sz, is_signed) ==
    IF Fits(imm, sz, is_signed) THEN c ELSE Fail(c, "immediate")

\* `match use_offset { Some(off) => off, None => self.push_stack(sz)? }`
AllocOrUse_always(c, use_offset, sz) == push_stack(c, sz)

AllocOrUse(c, use_offset, sz) ==
    IF use_offset.some THEN [c EXCEPT !.off = use_offset.v] ELSE push_stack(c, sz)

\* The store of one of the eight (size, signedness) arms.
ImmStore(sz, offset, imm) ==
    CASE sz = 1 -> store(1, offset, AsI8(imm))
      [] sz = 2 -> store(2, offset, AsI16(imm))
      [] sz = 4 -> store(4, offset, imm)
      [] OTHER -> store64(offset, ZeroExtend(imm))

emit_push_immediate(c, imm, cast_type, use_offset) ==
    LET b == cast_type.base
        sz == IF b.kind = "void" THEN 8 ELSE b.size
        is_signed == b.kind = "int" /\ b.signed
    IN  IF b.kind \notin {"int", "struct", "void"} THEN Fail(c, "immediate_type")
        ELSE Then(AllocOrUse(c, use_offset, sz), LAMBDA c1 :
                IF sz \in {1, 2, 4, 8}
                THEN Then(parse_immediate(c1, imm, sz, is_signed), LAMBDA c2 :
                        RetType(Emit(c2, ImmStore(sz, c2.off, imm)), QInt(sz, is_signed)))
                ELSE Then(parse_immediate(c1, imm, 1, TRUE), LAMBDA c2 :
                        RetType(emit_init_stack(c2, c2.off, imm, sz), cast_type)))

emit_push_register(c, reg, use_offset) ==
    Then(AllocOrUse(c, use_offset, 8), LAMBDA c1 : Emit(c1, storex64(c1.off, reg)))

\* probe_read_kernel(stack + offset, cast_type.get_size(), reg)
emit_deref_register_to_stack(c, reg, cast_type, offset) ==
    [c EXCEPT !.instructions = @ \o
        << movx64(R1, R10), add64(R1, offset), mov64(R2, get_size(cast_type)),
           movx64(R3, reg), call(ProbeReadKernel) >>]

\* ---------------------------------------------------------------- the AST

\* TypeDecl, wrapped in the Option of Assignment::type_name.
NoType == [some |-> FALSE, is_ref |-> FALSE, name |-> ""]
TypeDecl(name, is_ref) == [some |-> TRUE, is_ref |-> is_ref, name |-> name]

\* DeReference.
MemberAccess(name) == [kind |-> "member", name |-> name, element |-> 0]
ArrayIndex(i) == [kind |-> "index", name |-> "", element |-> i]

\* LValue: prefix is "" (none), "&" or "*".
LValue(prefix, name, derefs) == [prefix |-> prefix, name |-> name, derefs |-> derefs]

\* RValue.
Imm(n) == [kind |-> "imm", imm |-> n]
LVal(l) == [kind |-> "lval", lval |-> l]
Var(name) == LVal(LValue("", name, <<>>))
FunctionCall(name, args) == [kind |-> "call", name |-> name, args |-> args]

\* Expression.
Assignment(left, type_name, right) ==
    [kind |-> "assign", left |-> left, type_name |-> type_name, right |-> right]
CallStmt(name, args) == [kind |-> "callstmt", call |-> FunctionCall(name, args)]
Return(value) == [kind |-> "return", some |-> TRUE, value |-> value]
ReturnNone == [kind |-> "return", some |-> FALSE, value |-> Imm(0)]

TypedArgument(name, type_name) == [name |-> name, type_name |-> type_name]

\* ------------------------------------------------------------------ lookup

resolve_type_by_id(c, id) ==
    IF id \in DOMAIN TypeDB THEN RetType(c, TypeDB[id]) ELSE Fail(c, "bad_btf")

resolve_type_by_decl(c, decl) ==
    IF decl.name \in NamedTypes
    THEN LET t == TypeDB[decl.name]
         IN  RetType(c, IF decl.is_ref THEN [t EXCEPT !.refs = @ + 1] ELSE t)
    ELSE Fail(c, "no_type")

\* ------------------------------------------------------- dereference chains

get_member_access_bits(c, qtype, name) ==
    IF qtype.base.kind # "struct" THEN Fail(c, "member_on_non_struct")
    ELSE IF name \notin DOMAIN qtype.base.members THEN Fail(c, "no_member")
    ELSE IF qtype.base.members[name].offset % 8 # 0 THEN Fail(c, "bitfield")
    ELSE Then(resolve_type_by_id(c, qtype.base.members[name].type_id), LAMBDA c1 :
            [c1 EXCEPT !.off = qtype.base.members[name].offset])

get_member_access(c, qtype, name) ==
    IF qtype.base.kind # "struct" THEN Fail(c, "member_on_non_struct")
    ELSE IF name \notin DOMAIN qtype.base.members THEN Fail(c, "no_member")
    ELSE IF qtype.base.members[name].offset % 8 # 0 THEN Fail(c, "bitfield")
    ELSE Then(resolve_type_by_id(c, qtype.base.members[name].type_id), LAMBDA c1 :
            [c1 EXCEPT !.off = qtype.base.members[name].offset \div 8])

get_array_index_strict(c, qtype, index) ==
    Then(parse_immediate(c, index, 4, FALSE), LAMBDA c0 :
        IF qtype.base.kind # "array" THEN Fail(c0, "index_on_non_array")
        ELSE IF index >= qtype.base.count THEN Fail(c0, "out_of_bounds")
        ELSE Then(resolve_type_by_id(c0, qtype.base.elem), LAMBDA c1 :
                [c1 EXCEPT !.off = get_size(c1.ty) * index]))

get_array_index(c, qtype, index) ==
    Then(parse_immediate(c, index, 4, FALSE), LAMBDA c0 :
        IF qtype.base.kind # "array" THEN Fail(c0, "index_on_non_array")
        ELSE IF index > qtype.base.count THEN Fail(c0, "out_of_bounds")
        ELSE Then(resolve_type_by_id(c0, qtype.base.elem), LAMBDA c1 :
                [c1 EXCEPT !.off = get_size(c1.ty) * index]))

get_deref(c, cur_type, deref) ==
    IF deref.kind = "member" THEN get_member_access(c, cur_type, deref.name)
    ELSE get_array_index(c, cur_type, deref.element)

\* The loop of get_assign_offset, from step i with `offset` accumulated.
RECURSIVE AssignOffsetLoop(_, _, _, _, _)
AssignOffsetLoop(c, cur_type, derefs, i, offset) ==
    IF i > Len(derefs)
    THEN IF offset > 32767 THEN Fail(c, "conversion")
         ELSE [c EXCEPT !.off = offset, !.ty = cur_type]
    ELSE IF is_pointer(cur_type) THEN Fail(c, "indirect_assignment")
    ELSE Then(get_deref(c, cur_type, derefs[i]), LAMBDA c1 :
            AssignOffsetLoop(c1, c1.ty, derefs, i + 1, offset + c1.off))

get_assign_offset(c, qtype, derefs) == AssignOffsetLoop(c, qtype, derefs, 1, 0)

\* emit_deref_member_access / emit_deref_array_index: one step applied to the
\* address held in `reg`.
emit_deref_step(c, reg, qtype, deref) ==
    Then(get_deref(c, qtype, deref), LAMBDA c1 :
        IF c1.off > 0 THEN Emit(c1, add64(reg, c1.off)) ELSE c1)

RECURSIVE emit_apply_derefs_to_reg(_, _, _, _)
emit_apply_derefs_to_reg(c, reg, var_type, derefs) ==
    IF derefs = <<>> THEN RetType(c, var_type)
    ELSE Then(emit_deref_step(
                  IF is_pointer(var_type) THEN Emit(c, loadx(8, reg, reg, 0)) ELSE c,
                  reg, var_type, Head(derefs)),
              LAMBDA c1 : emit_apply_derefs_to_reg(c1, reg, c1.ty, Tail(derefs)))

\* ----------------------------------------------------------------- lvalues

emit_set_register_to_lvalue_addr(c, reg, lval) ==
    IF lval.name \notin DOMAIN c.variables THEN Fail(c, "no_variable")
    ELSE IF c.variables[lval.name].location.kind = "SpecialImmediate"
    THEN Fail(c, "special_immediate")
    ELSE emit_apply_derefs_to_reg(
             Emit(Emit(c, movx64(reg, R10)),
                  add64(reg, c.variables[lval.name].location.v)),
             reg, c.variables[lval.name].var_type, lval.derefs)

\* The end of emit_set_register_from_lvalue: `reg` holds the address of a
\* value of type var_type.
LoadThroughRegister(c, reg, prefix, var_type) ==
    IF prefix = "&" THEN c
    ELSE IF get_size(var_type) \notin {1, 2, 4, 8} THEN Fail(c, "too_large")
    ELSE IF prefix = "*"
    THEN IF ~is_pointer(var_type)
         THEN Fail(Emit(c, loadx(get_size(var_type), reg, reg, 0)), "not_a_pointer")
         ELSE Emit(Emit(c, loadx(get_size(var_type), reg, reg, 0)), loadx(8, reg, reg, 0))
    ELSE Emit(c, loadx(get_size(var_type), reg, reg, 0))

\* The SpecialImmediate arm of emit_set_register_from_lvalue: v.into() widens
\* the u32 to the 64-bit immediate of loadtype, under the hint or Void.
LoadImmediate_untyped(c, reg, v, load_type) == Emit(c, mov64(reg, v))

LoadImmediate(c, reg, v, load_type) ==
    Emit(c, loadtype(reg, ZeroExtend(v), IF load_type = "" THEN "Void" ELSE load_type))

emit_set_register_from_lvalue(c, reg, lval, load_type) ==
    IF lval.name \notin DOMAIN c.variables THEN Fail(c, "no_variable")
    ELSE IF c.variables[lval.name].location.kind = "SpecialImmediate"
    THEN IF lval.derefs # <<>> THEN Fail(c, "deref_special_immediate")
         ELSE LoadImmediate(c, reg, c.variables[lval.name].location.v, load_type)
    ELSE Then(emit_set_register_to_lvalue_addr(c, reg, lval), LAMBDA c1 :
            LoadThroughRegister(c1, reg, lval.prefix, c1.ty))

\* ------------------------------------------------------- rvalues and calls

\* The register emit_call lowers its argument i (from 0) into: R1..R5, and
\* no register (0, the bail! arm) from the sixth argument on.
ArgRegister_six(i) == IF i < 6 THEN i + 1 ELSE 0

ArgRegister(i) == IF i < 5 THEN i + 1 ELSE 0

\* Some(types[i]): the load hint of argument i (from 0).
ArgHint(types, i) == IF i < Len(types) THEN types[i + 1] ELSE "Void"

RECURSIVE emit_call(_, _)
RECURSIVE emit_set_register_from_rvalue(_, _, _, _)
RECURSIVE CallArgs(_, _, _, _)

emit_set_register_from_rvalue(c, reg, rval, load_type) ==
    CASE rval.kind = "imm" ->
            IF load_type # ""
            THEN Then(parse_immediate(c, rval.imm, 8, TRUE), LAMBDA c1 :
                    Emit(c1, loadtype(reg, ZeroExtend(rval.imm), load_type)))
            ELSE Then(parse_immediate(c, rval.imm, 4, TRUE), LAMBDA c1 :
                    Emit(c1, mov64(reg, rval.imm)))
      [] rval.kind = "lval" -> emit_set_register_from_lvalue(c, reg, rval.lval, load_type)
      [] OTHER ->
            Then(emit_call(c, rval), LAMBDA c1 :
                IF reg # R0 THEN Emit(c1, movx64(reg, R0)) ELSE c1)

\* The loop of emit_call over the arguments, from argument i (from 0).
CallArgs(c, args, i, types) ==
    IF i >= Len(args) THEN c
    ELSE IF ArgRegister(i) = 0 THEN Fail(c, "arity")
    ELSE Then(emit_set_register_from_rvalue(
                  [c EXCEPT !.argregs = @ \cup {ArgRegister(i)}],
                  ArgRegister(i), args[i + 1], ArgHint(types, i)),
              LAMBDA c1 : CallArgs(c1, args, i + 1, types))

emit_call_early(c, fc) ==
    IF fc.name \notin DOMAIN HelperIds THEN Fail(c, "unknown_helper")
    ELSE CallArgs(Emit(c, call(HelperIds[fc.name])), fc.args, 0, get_arg_types(fc.name))

emit_call(c, fc) ==
    IF fc.name \notin DOMAIN HelperIds THEN Fail(c, "unknown_helper")
    ELSE Then(CallArgs(c, fc.args, 0, get_arg_types(fc.name)), LAMBDA c1 :
            Emit(c1, call(HelperIds[fc.name])))

\* ------------------------------------------------------------- assignments

\* The end of emit_push_lvalue: R6 holds the address of the source, of type
\* var_type.
PushFromAddress(c, prefix, var_type, real_type, use_offset) ==
    IF get_size(real_type) # get_size(var_type) THEN Fail(c, "size_mismatch")
    ELSE Then(AllocOrUse(c, use_offset, get_size(real_type)), LAMBDA c2 :
            CASE prefix = "" ->
                    RetType(emit_deref_register_to_stack(c2, R6, real_type, c2.off),
                            real_type)
              [] prefix = "*" -> Fail(c2, "deref_unimplemented")
              [] OTHER ->
                    RetType(Emit(c2, storex64(c2.off, R6)),
                            [real_type EXCEPT !.refs = @ + 1]))

emit_push_lvalue(c, lval, cast_type, use_offset) ==
    Then(emit_set_register_to_lvalue_addr(c, R6, lval), LAMBDA c1 :
        PushFromAddress(c1, lval.prefix, c1.ty,
                        IF cast_type.base.kind = "void" THEN c1.ty ELSE cast_type,
                        use_offset))

emit_push_rvalue_anyint(c, rval, cast_type, use_offset) ==
    CASE rval.kind = "imm" -> emit_push_immediate(c, rval.imm, cast_type, use_offset)
      [] rval.kind = "lval" -> emit_push_lvalue(c, rval.lval, cast_type, use_offset)
      [] OTHER ->
            IF cast_type.base.kind # "int" THEN Fail(c, "call_non_integer")
            ELSE Then(emit_call(c, rval), LAMBDA c1 :
                    Then(emit_push_register(c1, R0, use_offset), LAMBDA c2 :
                        RetType(c2, cast_type)))

emit_push_rvalue(c, rval, cast_type, use_offset) ==
    CASE rval.kind = "imm" -> emit_push_immediate(c, rval.imm, cast_type, use_offset)
      [] rval.kind = "lval" -> emit_push_lvalue(c, rval.lval, cast_type, use_offset)
      [] OTHER ->
            IF cast_type.base.kind # "int" THEN Fail(c, "call_non_integer")
            ELSE IF cast_type.base.size # 8 THEN Fail(c, "call_non_64bit")
            ELSE Then(emit_call(c, rval), LAMBDA c1 :
                    Then(emit_push_register(c1, R0, use_offset), LAMBDA c2 :
                        RetType(c2, cast_type)))

\* emit_assign up to the call of emit_push_rvalue: the cast type in ty and,
\* for an existing name, the offset to write at in off.
AssignTarget_noretype(c, assign) ==
    IF assign.left.name \in DOMAIN c.variables
    THEN IF c.variables[assign.left.name].location.kind = "Stack"
         THEN Then(get_assign_offset(c, c.variables[assign.left.name].var_type,
                                     assign.left.derefs),
                   LAMBDA c1 :
                     [c1 EXCEPT !.off =
                          AsI16(c.variables[assign.left.name].location.v + c1.off)])
         ELSE Fail(c, "cannot_reassign")
    ELSE IF assign.type_name.some THEN resolve_type_by_decl(c, assign.type_name)
    ELSE RetType(c, DefaultType)

AssignTarget(c, assign) ==
    IF assign.left.name \in DOMAIN c.variables
    THEN IF assign.type_name.some THEN Fail(c, "retype")
         ELSE IF c.variables[assign.left.name].location.kind = "Stack"
         THEN Then(get_assign_offset(c, c.variables[assign.left.name].var_type,
                                     assign.left.derefs),
                   LAMBDA c1 :
                     [c1 EXCEPT !.off =
                          AsI16(c.variables[assign.left.name].location.v + c1.off)])
         ELSE Fail(c, "cannot_reassign")
    ELSE IF assign.type_name.some THEN resolve_type_by_decl(c, assign.type_name)
    ELSE RetType(c, DefaultType)

\* emit_assign after emit_push_rvalue: a new name gets its entry.
Bind(c, new_variable, name) ==
    IF new_variable THEN InsertStack(c, name, c.ty, c.off) ELSE c

emit_assign(c, assign) ==
    Then(AssignTarget(c, assign), LAMBDA c1 :
        Then(emit_push_rvalue(c1, assign.right, c1.ty,
                              IF assign.left.name \notin DOMAIN c.variables
                              THEN NoneOff ELSE SomeOff(c1.off)),
             LAMBDA c2 : Bind(c2, assign.left.name \notin DOMAIN c.variables,
                              assign.left.name)))

\* ------------------------------------------------------ return and prologue

emit_return_spilled(c, ret) ==
    Then(emit_push_rvalue(c, ret.value, DefaultType, NoneOff), LAMBDA c1 :
        Emit(Emit(c1, loadx(8, R0, R10, c1.off)), exit))

emit_return(c, ret) ==
    IF ~ret.some THEN Emit(Emit(c, mov64(R0, 0)), exit)
    ELSE Then(emit_set_register_from_rvalue(c, R0, ret.value, ""), LAMBDA c1 :
            Emit(c1, exit))

\* The loop of emit_prologue over the arguments, from argument i (from 1):
\* argument i arrives in register Ri.
\* Register::from_num((i + 1) as u8) for the argument at index i from 0:
\* here i counts from 1.
PrologueRegister_zero(i) == i - 1

PrologueRegister(i) == i

RECURSIVE PrologueArgs(_, _, _)
PrologueArgs(c, args, i) ==
    IF i > Len(args) THEN c
    ELSE Then(resolve_type_by_decl(c, args[i].type_name), LAMBDA c1 :
            Then(emit_push_register(c1, PrologueRegister(i), NoneOff), LAMBDA c2 :
                PrologueArgs(InsertStack(c2, args[i].name, c1.ty, c2.off),
                             args, i + 1)))

emit_prologue(c, args) ==
    IF Len(args) > 5 THEN Fail(c, "arity") ELSE PrologueArgs(c, args, 1)

\* One iteration of emit_body's loop.
emit_statement_unnumbered(c, expr) ==
    CASE expr.kind = "assign" -> emit_assign(c, expr)
      [] expr.kind = "callstmt" -> emit_call(c, expr.call)
      [] OTHER -> emit_return(c, expr)

emit_statement(c, expr) ==
    CASE expr.kind = "assign" -> emit_assign([c EXCEPT !.expr_num = @ + 1], expr)
      [] expr.kind = "callstmt" -> emit_call([c EXCEPT !.expr_num = @ + 1], expr.call)
      [] OTHER -> emit_return([c EXCEPT !.expr_num = @ + 1], expr)

\* The end of emit_body: `last` is the kind of the script's last statement
\* ("" for an empty body).
emit_body_end_never(c, last) == c

emit_body_end(c, last) ==
    IF last # "return" THEN emit_return(c, ReturnNone) ELSE c

\* --------------------------------------------------------------- optimizer

\* optimizer::optimize, as far as tests::return_input_value and
\* tests::assign_fields_from_fields show it: the address computation
\* `r = r10; r += k` followed by a load through r becomes one load
\* relative to the frame pointer; every other instruction is kept.
RECURSIVE optimize(_)
optimize(ins) ==
    IF Len(ins) >= 3
       /\ ins[1].op = "movx64" /\ ins[1].src = R10
       /\ ins[2].op = "add64" /\ ins[2].dst = ins[1].dst
       /\ ins[3].op \in {"loadx8", "loadx16", "loadx32", "loadx64"}
       /\ ins[3].dst = ins[1].dst /\ ins[3].src = ins[1].dst /\ ins[3].off = 0
    THEN << [ins[3] EXCEPT !.src = R10, !.off = ins[2].imm] >>
         \o optimize(SubSeq(ins, 4, Len(ins)))
    ELSE IF ins = <<>> THEN <<>>
    ELSE <<Head(ins)>> \o optimize(Tail(ins))

\* ------------------------------------------------------------ entry points

\* Compiler::capture: the value is kept as a u32.
capture(vs, name, value) == Insert(vs, name, ImmVar(QInt(8, TRUE), AsU32(value)))

\* Compiler::compile works on `&mut self`: the context a compile starts
\* from is the instance's current fields.
FreshCtx(vs, is, st, ln) == Ctx(<<>>, <<>>, 0, 1)

SelfCtx(vs, is, st, ln) == Ctx(vs, is, st, ln)

\* ------------------------------------------------------------------ inputs

Uid == "get_current_uid_gid"

Six == <<Imm(1), Imm(2), Imm(3), Imm(4), Imm(5), Imm(6)>>

\* capture(name, value): the values 7 and 2^32 + 9, under a fresh name or a
\* name scripts also declare.
CaptureNames == {"m", "a"}
CaptureValues == {I64(0, 7), I64(1, 9)}

U64Arg(name) == TypedArgument(name, TypeDecl("__u64", FALSE))

\* Function signatures: none to six arguments, integer, struct and pointer
\* types, a repeated name, the name of a captured value.
ArgLists ==
    { <<>>,
      << TypedArgument("a", TypeDecl("int", FALSE)) >>,
      << TypedArgument("a", TypeDecl("iovec", FALSE)) >>,
      << TypedArgument("a", TypeDecl("iovec", TRUE)) >>,
      << TypedArgument("a", TypeDecl("int", FALSE)), U64Arg("a") >>,
      << U64Arg("m") >>,
      << U64Arg("a"), U64Arg("b"), U64Arg("c"), U64Arg("d"), U64Arg("e") >>,
      << U64Arg("a"), U64Arg("b"), U64Arg("c"), U64Arg("d"), U64Arg("e"), U64Arg("f") >> }

Name(n) == LValue("", n, <<>>)

\* `a.data[i]`.
Element(i) == LValue("", "a", <<MemberAccess("data"), ArrayIndex(i)>>)

\* Declarations and re-typings: `n: T = imm`, `n: T = call`.
TypedAssignments ==
    { Assignment(Name("a"), TypeDecl("__u64", FALSE), Imm(100)),
      Assignment(Name("a"), TypeDecl("u8", FALSE), Imm(200)),
      Assignment(Name("a"), TypeDecl("buf", FALSE), Imm(0)),
      Assignment(Name("b"), TypeDecl("buf", FALSE), Imm(0)),
      Assignment(Name("a"), TypeDecl("iovec", FALSE), Imm(0)),
      Assignment(Name("m"), TypeDecl("int", FALSE), Imm(5)),
      Assignment(Name("b"), TypeDecl("s15", FALSE), Imm(1)),
      Assignment(Name("b"), TypeDecl("s15", FALSE), Imm(200)),
      Assignment(Name("b"), TypeDecl("int", FALSE), FunctionCall(Uid, <<>>)),
      Assignment(Name("b"), TypeDecl("iovec", FALSE), FunctionCall(Uid, <<>>)),
      Assignment(Name("b"), TypeDecl("__u64", FALSE), FunctionCall(Uid, <<>>)),
      Assignment(Name("b"), TypeDecl("__u64", FALSE), FunctionCall(Uid, Six)) }

\* Assignments without a type: to new and to existing names, from every
\* kind of right-hand side.
UntypedAssignments ==
    { Assignment(Name("a"), NoType, Imm(300)),
      Assignment(Name("b"), NoType, Imm(5)),
      Assignment(Name("m"), NoType, Imm(5)),
      Assignment(Name("b"), NoType, Var("a")),
      Assignment(Name("a"), NoType, Var("b")),
      Assignment(Name("b"), NoType, LVal(LValue("&", "a", <<>>))),
      Assignment(Name("b"), NoType, LVal(LValue("*", "a", <<>>))),
      Assignment(Name("b"), NoType, Var("m")),
      Assignment(Name("b"), NoType, LVal(LValue("&", "m", <<>>))),
      Assignment(Name("b"), NoType, LVal(LValue("", "m", <<MemberAccess("iov_len")>>))),
      Assignment(Name("a"), NoType, FunctionCall(Uid, <<>>)),
      Assignment(Name("b"), NoType, FunctionCall(Uid, Six)),
      Assignment(LValue("", "a", <<MemberAccess("iov_base")>>), NoType, Imm(100)),
      Assignment(LValue("", "a", <<MemberAccess("iov_len")>>), NoType, Imm(200)),
      Assignment(Element(1), NoType, Imm(5)),
      Assignment(Element(32), NoType, Imm(5)),
      Assignment(Element(33), NoType, Imm(5)) }

Returns ==
    { ReturnNone,
      Return(Imm(300)),
      Return(Var("a")),
      Return(LVal(LValue("&", "a", <<>>))),
      Return(LVal(LValue("*", "a", <<>>))),
      Return(LVal(LValue("", "a", <<MemberAccess("iov_len")>>))),
      Return(Var("m")),
      Return(LVal(LValue("&", "m", <<>>))),
      Return(LVal(LValue("*", "m", <<>>))),
      Return(LVal(LValue("", "m", <<MemberAccess("iov_len")>>))),
      Return(LVal(LValue("", "m", <<ArrayIndex(0)>>))),
      Return(LVal(LValue("", "a", <<ArrayIndex(0)>>))),
      Return(LVal(Element(0))),
      Return(LVal(Element(1))),
      Return(LVal(Element(32))),
      Return(LVal(Element(33))),
      Return(FunctionCall(Uid, <<>>)),
      Return(FunctionCall(Uid, <<FunctionCall(Uid, <<>>)>>)),
      Return(FunctionCall(Uid, Six)) }

Calls ==
    { CallStmt(Uid, <<>>),
      CallStmt(Uid, <<Var("m")>>),
      CallStmt("map_lookup_elem", <<Var("m"), LVal(LValue("&", "a", <<>>))>>),
      CallStmt(Uid, <<LVal(LValue("&", "m", <<>>))>>),
      CallStmt(Uid, <<LVal(LValue("", "m", <<ArrayIndex(0)>>))>>),
      CallStmt(Uid, <<Imm(1), Imm(2), Imm(3), Imm(4), Imm(5)>>),
      CallStmt(Uid, Six),
      CallStmt("nope", Six),
      CallStmt(Uid, <<FunctionCall(Uid, Six)>>),
      CallStmt(Uid, <<Imm(1), FunctionCall(Uid, <<Imm(2)>>), Var("a")>>) }

Statements == TypedAssignments \cup UntypedAssignments \cup Returns \cup Calls

\* ------------------------------------------------------------------- state

VARIABLES
    variables,      \* Compiler::variables: name -> VariableInfo
    instructions,   \* Compiler::instructions
    stack,          \* Compiler::stack
    expr_num,       \* Compiler::expr_num
    pc,             \* "idle" between calls, "body" inside compile's emit_body
    last,           \* the kind of the last statement lowered by this compile
    result,         \* how the last compile ended: "ok", its error, "" if none yet
    ops,            \* calls and statements so far
    cur,            \* the call or statement of the last step
    pushLog,        \* the push_stack calls of the last step
    argRegs,        \* the registers emit_call lowered arguments into, last step
    bindLog,        \* the names given to variables.insert, last step
    captured,       \* name -> the value the host passed to capture
    prev,           \* the instance when the running (or last) compile began
    rets,           \* return statements lowered by this compile
    nth             \* the position in the script of the last statement of
                    \* this compile that emit_body took up, 0 before the first

vars == << variables, instructions, stack, expr_num, pc, last, result, ops, cur,
           pushLog, argRegs, bindLog, captured, prev, rets, nth >>

Step(op) == [op |-> op, name |-> "", value |-> I64(0, 0), args |-> <<>>, stmt |-> ReturnNone]

Snapshot(ok) ==
    [ok |-> ok, names |-> DOMAIN variables, instructions |-> instructions,
     stack |-> stack, expr_num |-> expr_num]

Init ==
    /\ variables = <<>>
    /\ instructions = <<>>
    /\ stack = 0
    /\ expr_num = 1
    /\ pc = "idle"
    /\ last = ""
    /\ result = ""
    /\ ops = 0
    /\ cur = Step("create")
    /\ pushLog = <<>>
    /\ argRegs = {}
    /\ bindLog = <<>>
    /\ captured = <<>>
    /\ prev = [ok |-> FALSE, names |-> {}, instructions |-> <<>>, stack |-> 0,
               expr_num |-> 1]
    /\ rets = 0
    /\ nth = 0

\* What a step of compile leaves in the instance: bail! returns from
\* compile without undoing anything.
Commit(c) ==
    /\ variables' = c.variables
    /\ instructions' = c.instructions
    /\ stack' = c.stack
    /\ expr_num' = c.expr_num
    /\ pushLog' = c.pushes
    /\ argRegs' = c.argregs
    /\ bindLog' = c.binds

\* A step of compile that can fail: on an error compile returns it, else it
\* goes on with the body.
Finish(c) ==
    /\ Commit(c)
    /\ pc' = IF Ok(c) THEN "body" ELSE "idle"
    /\ result' = c.err

\* compiler.capture(name, value)
Capture ==
    /\ pc = "idle"
    /\ ops < MaxOps
    /\ \E name \in CaptureNames, value \in CaptureValues :
          /\ variables' = capture(variables, name, value)
          /\ captured' = Insert(captured, name, value)
          /\ bindLog' = <<name>>
          /\ cur' = [Step("capture") EXCEPT !.name = name, !.value = value]
    /\ ops' = ops + 1
    /\ pushLog' = <<>>
    /\ argRegs' = {}
    /\ UNCHANGED << instructions, stack, expr_num, pc, last, result, prev, rets, nth >>

\* compiler.compile(script), up to the end of emit_prologue.
BeginCompile ==
    /\ pc = "idle"
    /\ ops < MaxOps
    /\ \E args \in ArgLists :
          /\ Finish(emit_prologue(SelfCtx(variables, instructions, stack, expr_num),
                                  args))
          /\ cur' = [Step("compile") EXCEPT !.args = args]
    /\ prev' = Snapshot(result = "ok")
    /\ last' = ""
    /\ rets' = 0
    /\ nth' = 0
    /\ ops' = ops + 1
    /\ UNCHANGED captured

\* One iteration of the loop of emit_body: the next statement of the script.
Statement ==
    /\ pc = "body"
    /\ ops < MaxOps
    /\ \E expr \in Statements :
          /\ Finish(emit_statement(Ctx(variables, instructions, stack, expr_num), expr))
          /\ cur' = [Step("statement") EXCEPT !.stmt = expr]
          /\ last' = expr.kind
          /\ rets' = IF pc' = "body" /\ expr.kind = "return" THEN rets + 1 ELSE rets
    /\ nth' = nth + 1
    /\ ops' = ops + 1
    /\ UNCHANGED << captured, prev >>

\* The script has no more statements: the implicit return, the optimizer,
\* and compile returns Ok.
EndCompile ==
    /\ pc = "body"
    /\ Commit([emit_body_end(Ctx(variables, instructions, stack, expr_num), last)
                  EXCEPT !.instructions = optimize(@)])
    /\ pc' = "idle"
    /\ result' = "ok"
    /\ cur' = Step("end")
    /\ UNCHANGED << last, ops, captured, prev, rets, nth >>

Next == Capture \/ BeginCompile \/ Statement \/ EndCompile

Spec == Init /\ [][Next]_vars

\* ------------------------------------------------------------------ properties

\* The stack-resident entries of the variable table and the bytes of the
\* frame each one stands for: [offset, offset + size of the recorded type).
StackNames == { n \in DOMAIN variables : variables[n].location.kind = "Stack" }
SlotLow(n) == variables[n].location.v
SlotHigh(n) == variables[n].location.v + get_size(variables[n].var_type)

\* Every push_stack call of the last step behaved as documented: it
\* succeeded exactly when the request fitted in the 512 bytes, a success
\* advanced the counter by the request and returned its negation, a failure
\* left the counter alone.
PushesAsDocumented ==
    \A i \in 1..Len(pushLog) :
        /\ pushLog[i].ok <=> (pushLog[i].before + pushLog[i].n <= 512)
        /\ pushLog[i].ok =>
              /\ pushLog[i].after = pushLog[i].before + pushLog[i].n
              /\ pushLog[i].ret = -pushLog[i].after
        /\ ~pushLog[i].ok =>
              /\ pushLog[i].after = pushLog[i].before
              /\ i = Len(pushLog)
              /\ result = "stack"
        /\ i < Len(pushLog) => pushLog[i + 1].before = pushLog[i].after
        /\ i = Len(pushLog) => stack = pushLog[i].after

\* C1: the stack counter stays within 0..512 and never decreases over the
\* life of the instance; a request that would take it past 512 fails with
\* the stack-budget error and leaves it unchanged, and a request that fits
\* advances it by the size and yields the negated new counter as the offset.
C1_StackCounter ==
    /\ [](stack \in 0..512 /\ PushesAsDocumented)
    /\ [][stack' >= stack]_vars

\* A compile ran out of frame: a request was refused with part of the frame
\* already handed out.
C1_Witness ==
    /\ result = "stack"
    /\ stack > 0
    /\ pushLog # <<>>
    /\ ~pushLog[Len(pushLog)].ok

\* C2: the slots of the stack-resident variables are pairwise disjoint byte
\* ranges lying inside the frame handed out so far.
C2_SlotsDisjoint ==
    /\ \A n \in StackNames : -stack <= SlotLow(n) /\ SlotHigh(n) <= 0
    /\ \A n1, n2 \in StackNames :
          n1 # n2 => SlotHigh(n1) <= SlotLow(n2) \/ SlotHigh(n2) <= SlotLow(n1)

\* C3: a step never gives a name that is already in the table to
\* variables.insert, never gives it the same name twice, and leaves every
\* existing entry as it was.
C3_BoundOnce ==
    [][ /\ \A i \in 1..Len(bindLog') :
              /\ bindLog'[i] \notin DOMAIN variables
              /\ \A j \in 1..Len(bindLog') : bindLog'[j] = bindLog'[i] => j = i
        /\ \A n \in DOMAIN variables :
              n \in DOMAIN variables' /\ variables'[n] = variables[n] ]_vars

\* The table after `a: u8 = 200` and `b = &a`: b's one-byte slot is recorded
\* with a pointer type, so its eight bytes run over a's slot and past the
\* top of the frame.
C2_Witness ==
    /\ {"a", "b"} \subseteq StackNames
    /\ SlotLow("b") < SlotLow("a")
    /\ SlotHigh("b") > SlotLow("a")
    /\ SlotHigh("b") > 0

\* A step gave variables.insert a name the table already held, or the same
\* name twice.
C3_Witness ==
    \E i \in 1..Len(bindLog) :
        \/ bindLog[i] \in prev.names /\ cur.op = "compile"
        \/ \E j \in 1..Len(bindLog) : j # i /\ bindLog[j] = bindLog[i]

\* The instructions that write r0.
WritesR0(ins) ==
    \/ /\ ins.op \in {"mov64", "movx64", "add64", "loadtype", "loadx8", "loadx16",
                     "loadx32", "loadx64"}
       /\ ins.dst = R0
    \/ ins.op = "call"

IsPrefix(s, t) == Len(s) <= Len(t) /\ SubSeq(t, 1, Len(s)) = s

\* The exit instructions of a sequence.
Exits(is) == Cardinality({ i \in 1..Len(is) : is[i] = exit })

\* C4: after a successful compile the instruction sequence ends in exit and
\* the instruction before it writes r0; the compile appended one exit per
\* return statement, and one more, after `mov64 r0, 0`, exactly when its
\* last statement was not a return (or it had no statement).
C4_EndsInExit ==
    (pc = "idle" /\ result = "ok") =>
        /\ Len(instructions) >= 2
        /\ instructions[Len(instructions)] = exit
        /\ WritesR0(instructions[Len(instructions) - 1])
        /\ last # "return" => instructions[Len(instructions) - 1] = mov64(R0, 0)
        /\ Exits(instructions) - Exits(prev.instructions)
              = rets + (IF last = "return" THEN 0 ELSE 1)

\* A compile of a script with a return statement followed by a statement of
\* another kind succeeded.
C4_Witness ==
    /\ pc = "idle"
    /\ result = "ok"
    /\ rets = 1
    /\ last \notin {"", "return"}

\* The step lowers a statement.
StatementStep == pc = "body" /\ cur'.op = "statement"

\* C5: lowering a typed assignment whose target name is in the table fails
\* with the re-typing error, whatever the types, the entry's location and
\* the right-hand side, and leaves the instructions, the stack counter and
\* the table as they were.
C5_RetypeFails ==
    [][ ( /\ StatementStep
          /\ cur'.stmt.kind = "assign"
          /\ cur'.stmt.type_name.some
          /\ cur'.stmt.left.name \in DOMAIN variables )
        => ( /\ pc' = "idle"
             /\ result' = "retype"
             /\ instructions' = instructions
             /\ stack' = stack
             /\ pushLog' = <<>>
             /\ variables' = variables ) ]_vars

\* A typed assignment to a captured name was refused.
C5_Witness ==
    /\ result = "retype"
    /\ cur.op = "statement"
    /\ cur.stmt.left.name \in DOMAIN captured
    /\ variables[cur.stmt.left.name].location.kind = "SpecialImmediate"

\* The step lowers an assignment without a type to a name of the table.
ReassignStep ==
    /\ StatementStep
    /\ cur'.stmt.kind = "assign"
    /\ ~cur'.stmt.type_name.some
    /\ cur'.stmt.left.name \in DOMAIN variables

\* The instructions the step appended.
Appended == SubSeq(instructions', Len(instructions) + 1, Len(instructions'))

\* A write to the frame at an offset in low..high: a store based on r10, or
\* a probe read whose destination is r10 + offset.
WritesFrame(is, low, high) ==
    \E i \in 1..Len(is) :
        \/ /\ is[i].op \in {"store8", "store16", "store32", "store64", "storex64"}
           /\ is[i].dst = R10
           /\ is[i].off \in low..high
        \/ /\ is[i] = add64(R1, is[i].imm)
           /\ is[i].imm \in low..high
           /\ i > 1
           /\ is[i - 1] = movx64(R1, R10)
           /\ is[Len(is)] = call(ProbeReadKernel)

\* The slot of the variable an assignment names, before the step.
TargetLow == variables[cur'.stmt.left.name].location.v
TargetHigh ==
    variables[cur'.stmt.left.name].location.v
        + get_size(variables[cur'.stmt.left.name].var_type) - 1

\* C6 as stated: an assignment without a type to a name of the table always
\* compiles, writes at the variable's offset, and creates no stack bytes and
\* no table entry.
C6_ReassignAlwaysSucceeds ==
    [][ ReassignStep =>
          /\ pc' = "body"
          /\ stack' = stack
          /\ variables' = variables
          /\ WritesFrame(Appended, TargetLow, TargetLow) ]_vars

\* C6, amended: an assignment without a type to a name of the table never
\* allocates stack and never changes the table; it fails with nothing
\* emitted when the name is a captured value; when it compiles, the name is
\* stack-resident, and a target with no member or index suffix is written
\* at the variable's offset.
C6_ReassignWritesInPlace ==
    [][ ReassignStep =>
          /\ stack' = stack
          /\ pushLog' = <<>>
          /\ bindLog' = <<>>
          /\ variables' = variables
          /\ variables[cur'.stmt.left.name].location.kind = "SpecialImmediate" =>
                /\ pc' = "idle"
                /\ result' = "cannot_reassign"
                /\ instructions' = instructions
          /\ pc' = "body" =>
                /\ variables[cur'.stmt.left.name].location.kind = "Stack"
                /\ cur'.stmt.left.derefs = <<>> =>
                      WritesFrame(Appended, TargetLow, TargetLow) ]_vars

\* An assignment without a type to an existing stack-resident name compiled.
C6_Witness ==
    /\ pc = "body"
    /\ cur.op = "statement"
    /\ cur.stmt.kind = "assign"
    /\ ~cur.stmt.type_name.some
    /\ bindLog = <<>>
    /\ cur.stmt.right.kind = "call"
    /\ instructions[Len(instructions)]
          = storex64(variables[cur.stmt.left.name].location.v, R0)

\* A call with six or more arguments, at the top of an rvalue or nested in
\* the arguments of a call.
RECURSIVE WideCall(_)
WideCall(rv) ==
    /\ rv.kind = "call"
    /\ \/ Len(rv.args) >= 6
       \/ \E i \in 1..Len(rv.args) : WideCall(rv.args[i])

\* The rvalue a statement lowers: the call of a call statement, the value
\* of a return, the source of an assignment.
StatementRValue(stmt) ==
    CASE stmt.kind = "callstmt" -> stmt.call
      [] stmt.kind = "assign" -> stmt.right
      [] OTHER -> stmt.value

\* The step lowers the signature of a script with six or more arguments.
WideSignatureStep == pc = "idle" /\ cur'.op = "compile" /\ Len(cur'.args) >= 6

\* The step lowers a statement with a call of six or more arguments.
WideCallStep == StatementStep /\ WideCall(StatementRValue(cur'.stmt))

\* The lowering of the statement gets to the sixth argument of its call: a
\* call statement or a returned call of a known helper whose first five
\* arguments are immediates.
ReachesSixth(stmt) ==
    /\ stmt.kind \in {"callstmt", "return"}
    /\ StatementRValue(stmt).kind = "call"
    /\ StatementRValue(stmt).name \in DOMAIN HelperIds
    /\ Len(StatementRValue(stmt).args) >= 6
    /\ \A i \in 1..5 : StatementRValue(stmt).args[i].kind = "imm"

\* C7 as stated: a signature or a call with six or more arguments always
\* fails the compile with the arity error, and no argument is lowered into
\* a register beyond r5.
C7_WideAlwaysArityError ==
    [][ (WideSignatureStep \/ WideCallStep) =>
          /\ pc' = "idle"
          /\ result' = "arity"
          /\ argRegs' \subseteq 1..5 ]_vars

\* C7, amended: a signature with six or more arguments fails with the
\* arity error before anything is emitted, allocated or bound; a statement
\* with a call of six or more arguments always fails, with the arity error
\* whenever the lowering gets to the sixth argument, after the first five
\* were lowered into r1..r5; and no step lowers an argument into a register
\* beyond r5.
C7_WideFails ==
    [][ /\ WideSignatureStep =>
              /\ pc' = "idle"
              /\ result' = "arity"
              /\ instructions' = instructions
              /\ stack' = stack
              /\ variables' = variables
        /\ WideCallStep =>
              /\ pc' = "idle"
              /\ result' \notin {"", "ok"}
              /\ \A i \in 1..Len(Appended) : Appended[i].op # "call"
        /\ (StatementStep /\ ReachesSixth(cur'.stmt)) =>
              /\ result' = "arity"
              /\ argRegs' = 1..5
              /\ Len(Appended) = 5
        /\ argRegs' \subseteq 1..5 ]_vars

\* A call statement with six arguments was refused after its first five
\* arguments had been lowered.
C7_Witness ==
    /\ result = "arity"
    /\ cur.op = "statement"
    /\ cur.stmt.kind = "callstmt"
    /\ argRegs = 1..5
    /\ Len(instructions) >= 5

\* The rvalue is the bare name of a captured value: no prefix, no suffix,
\* and the table holds the name as a captured immediate.
BareCaptured(rv) ==
    /\ rv.kind = "lval"
    /\ rv.lval.prefix = ""
    /\ rv.lval.derefs = <<>>
    /\ rv.lval.name \in DOMAIN variables
    /\ variables[rv.lval.name].location.kind = "SpecialImmediate"

\* The statement returns a captured value, passes one as the first argument
\* of a call of a known helper, assigns from one.
ReturnsCaptured(stmt) == stmt.kind = "return" /\ stmt.some /\ BareCaptured(stmt.value)
PassesCaptured(stmt) ==
    /\ stmt.kind = "callstmt"
    /\ stmt.call.name \in DOMAIN HelperIds
    /\ Len(stmt.call.args) \in 1..5
    /\ BareCaptured(stmt.call.args[1])
AssignsCaptured(stmt) == stmt.kind = "assign" /\ BareCaptured(stmt.right)

\* The typed-immediate loads of a sequence.
TypedLoads(is) == Cardinality({ i \in 1..Len(is) : is[i].op = "loadtype" })

\* C8 as stated: a bare captured name as a return value, a call argument or
\* an assignment source compiles, with one typed-immediate load of the value
\* given to capture into the consuming register and no stack allocated.
C8_CapturedByValueEverywhere ==
    [][ StatementStep =>
          /\ ReturnsCaptured(cur'.stmt) =>
                /\ pc' = "body"
                /\ stack' = stack
                /\ Appended = << loadtype(R0, captured[cur'.stmt.value.lval.name], "Void"),
                                 exit >>
          /\ PassesCaptured(cur'.stmt) =>
                /\ stack' = stack
                /\ Len(Appended) >= 1
                /\ Appended[1].lt # ""
                /\ [Appended[1] EXCEPT !.lt = ""]
                      = loadtype(R1, captured[cur'.stmt.call.args[1].lval.name], "")
          /\ AssignsCaptured(cur'.stmt) =>
                /\ pc' = "body"
                /\ TypedLoads(Appended) = 1 ]_vars

\* C8, amended: a bare captured name as a return value or a call argument
\* is lowered to one typed-immediate load, into the consuming register, of
\* the low 32 bits of the value given to capture, zero-extended, with no
\* stack allocated and the table unchanged; as an assignment source it makes
\* the compile fail with nothing emitted, allocated or bound.
C8_CapturedByValueInRegister ==
    [][ StatementStep =>
          /\ ReturnsCaptured(cur'.stmt) =>
                /\ pc' = "body"
                /\ stack' = stack
                /\ pushLog' = <<>>
                /\ variables' = variables
                /\ Appended =
                      << loadtype(R0, I64(0, captured[cur'.stmt.value.lval.name].lo),
                                  "Void"),
                         exit >>
          /\ PassesCaptured(cur'.stmt) =>
                /\ stack' = stack
                /\ pushLog' = <<>>
                /\ variables' = variables
                /\ Len(Appended) >= 1
                /\ Appended[1].lt # ""
                /\ [Appended[1] EXCEPT !.lt = ""]
                      = loadtype(R1, I64(0, captured[cur'.stmt.call.args[1].lval.name].lo),
                                 "")
                /\ Len(cur'.stmt.call.args) = 1 =>
                      /\ pc' = "body"
                      /\ Len(Appended) = 2
                      /\ Appended[2] = call(HelperIds[cur'.stmt.call.name])
          /\ AssignsCaptured(cur'.stmt) =>
                /\ pc' = "idle"
                /\ result' \in {"special_immediate", "cannot_reassign", "retype"}
                /\ Appended = <<>>
                /\ stack' = stack
                /\ variables' = variables ]_vars

\* The value 2^32 + 9 was captured and returned by name: the load is of 9.
C8_Witness ==
    /\ pc = "body"
    /\ cur.op = "statement"
    /\ cur.stmt.kind = "return"
    /\ cur.stmt.some
    /\ cur.stmt.value.kind = "lval"
    /\ cur.stmt.value.lval.name \in DOMAIN captured
    /\ captured[cur.stmt.value.lval.name] = I64(1, 9)
    /\ Len(instructions) >= 2
    /\ instructions[Len(instructions) - 1] = loadtype(R0, I64(0, 9), "Void")

\* The rvalue names a captured value with a reference or dereference prefix
\* or with a member or array suffix.
DecoratedCaptured(rv) ==
    /\ rv.kind = "lval"
    /\ rv.lval.prefix # "" \/ rv.lval.derefs # <<>>
    /\ rv.lval.name \in DOMAIN variables
    /\ variables[rv.lval.name].location.kind = "SpecialImmediate"

\* The statement has such an rvalue as its return value, as an argument of
\* its call, or as its assignment source.
RefersDecorated(stmt) ==
    CASE stmt.kind = "return" -> stmt.some /\ DecoratedCaptured(stmt.value)
      [] stmt.kind = "callstmt" ->
            \E i \in 1..Len(stmt.call.args) : DecoratedCaptured(stmt.call.args[i])
      [] OTHER -> DecoratedCaptured(stmt.right)

\* C9: a statement that refers to a captured value with a reference
\* prefix, a dereference prefix, a member suffix or an array suffix, as a
\* return value, a call argument or an assignment source, makes the compile
\* fail.
C9_DecoratedCapturedFails ==
    [][ (StatementStep /\ RefersDecorated(cur'.stmt)) =>
          /\ pc' = "idle"
          /\ result' \notin {"", "ok"} ]_vars

\* `return &m` on a captured m was lowered to a load of m's value and exit.
C9_Witness ==
    /\ pc = "body"
    /\ cur.op = "statement"
    /\ cur.stmt = Return(LVal(LValue("&", "m", <<>>)))
    /\ "m" \in DOMAIN variables
    /\ variables["m"].location.kind = "SpecialImmediate"
    /\ instructions[Len(instructions)] = exit
    /\ instructions[Len(instructions) - 1].op = "loadtype"

\* C10: once a compile has succeeded, the next compile on the instance
\* works on what it left: its names stay in the table, the stack counter
\* and the line counter go on from their values (the prologue of the next
\* compile adds 8 bytes per argument and no line), and the instruction list
\* keeps its instructions, exit included, in front of the new ones.
C10_StateCarriesOver ==
    prev.ok =>
        /\ prev.names \subseteq DOMAIN variables
        /\ stack >= prev.stack
        /\ expr_num >= prev.expr_num
        /\ prev.expr_num >= 1
        /\ IsPrefix(prev.instructions, instructions)
        /\ prev.instructions # <<>>
        /\ prev.instructions[Len(prev.instructions)] = exit
        /\ (cur.op = "compile" /\ pc = "body") =>
              /\ expr_num = prev.expr_num
              /\ stack = prev.stack + 8 * Len(cur.args)
              /\ Len(instructions) = Len(prev.instructions) + Len(cur.args)
        /\ (pc = "idle" /\ result = "ok") =>
              /\ Len(instructions) >= Len(prev.instructions) + 2
              /\ instructions[Len(prev.instructions) + 1] # exit

\* A second compile succeeded on an instance whose first compile had lowered
\* a statement and declared a variable.
C10_Witness ==
    /\ prev.ok
    /\ pc = "idle"
    /\ result = "ok"
    /\ cur.op = "end"
    /\ prev.names # {}
    /\ prev.expr_num > 1
    /\ prev.stack > 0
    /\ Exits(instructions) >= 2

\* The step lowers the signature of a script.
SignatureStep == pc = "idle" /\ cur'.op = "compile"

\* The type a typed argument declares.
DeclaredType(arg) ==
    IF arg.type_name.is_ref
    THEN [TypeDB[arg.type_name.name] EXCEPT !.refs = @ + 1]
    ELSE TypeDB[arg.type_name.name]

\* The last argument of the signature with the name of argument i.
LastNamed(args, i) ==
    CHOOSE j \in i..Len(args) :
        /\ args[j].name = args[i].name
        /\ \A k \in (j + 1)..Len(args) : args[k].name # args[i].name

\* The width of a load through a register, 0 for any other instruction.
LoadWidth(ins) ==
    CASE ins.op = "loadx8" -> 1
      [] ins.op = "loadx16" -> 2
      [] ins.op = "loadx32" -> 4
      [] ins.op = "loadx64" -> 8
      [] OTHER -> 0

\* The width of a store of an immediate, 0 for any other instruction.
StoreWidth(ins) ==
    CASE ins.op = "store8" -> 1
      [] ins.op = "store16" -> 2
      [] ins.op = "store32" -> 4
      [] ins.op = "store64" -> 8
      [] OTHER -> 0

\* The statement returns a stack-resident variable by its bare name.
ReturnsStackName(stmt) ==
    /\ stmt.kind = "return"
    /\ stmt.some
    /\ stmt.value.kind = "lval"
    /\ stmt.value.lval.prefix = ""
    /\ stmt.value.lval.derefs = <<>>
    /\ stmt.value.lval.name \in StackNames

\* The step lowers a signature of up to five arguments that fits the frame.
NarrowSignatureStep ==
    SignatureStep /\ Len(cur'.args) <= 5 /\ stack + 8 * Len(cur'.args) <= 512

\* The prologue: one 64-bit store of r(i) per argument, in order, each to a
\* fresh 8-byte slot, and nothing else; every argument is given to the
\* table, in order, and the table holds it at its slot with its declared
\* type unless a later argument has its name.
PrologueStores ==
    /\ pc' = "body"
    /\ expr_num' = expr_num
    /\ stack' = stack + 8 * Len(cur'.args)
    /\ Len(Appended) = Len(cur'.args)
    /\ \A i \in 1..Len(cur'.args) : Appended[i] = storex64(-(stack + 8 * i), i)
    /\ bindLog' = [i \in 1..Len(cur'.args) |-> cur'.args[i].name]
    /\ DOMAIN variables' = DOMAIN variables \cup { cur'.args[i].name : i \in 1..Len(cur'.args) }
    /\ \A i \in 1..Len(cur'.args) :
          LastNamed(cur'.args, i) = i =>
              variables'[cur'.args[i].name]
                  = StackVar(DeclaredType(cur'.args[i]), -(stack + 8 * i))

\* C11 as stated: the prologue stores each argument register to a fresh
\* 8-byte slot, in order, and registers every argument at its slot with its
\* declared type; a by-value read of the variable compiles to a load of the
\* width of its type.
C11_ReadLoadsDeclaredWidth ==
    [][ /\ NarrowSignatureStep => PrologueStores
        /\ (StatementStep /\ ReturnsStackName(cur'.stmt)) =>
              /\ pc' = "body"
              /\ \E i \in 1..Len(Appended) :
                    LoadWidth(Appended[i])
                        = get_size(variables[cur'.stmt.value.lval.name].var_type) ]_vars

\* C11, amended: the prologue as stated; a by-value read of a variable of
\* 1, 2, 4 or 8 bytes loads it with that width from its slot, and a read of
\* a variable of any other size fails with nothing allocated or bound.
C11_PrologueAndRead ==
    [][ /\ NarrowSignatureStep => PrologueStores
        /\ (StatementStep /\ ReturnsStackName(cur'.stmt)) =>
              /\ stack' = stack
              /\ variables' = variables
              /\ IF get_size(variables[cur'.stmt.value.lval.name].var_type) \in {1, 2, 4, 8}
                 THEN /\ pc' = "body"
                      /\ Appended =
                            << movx64(R0, R10),
                               add64(R0, variables[cur'.stmt.value.lval.name].location.v),
                               loadx(get_size(variables[cur'.stmt.value.lval.name].var_type),
                                     R0, R0, 0),
                               exit >>
                 ELSE /\ pc' = "idle"
                      /\ result' = "too_large" ]_vars

\* On a fresh instance `fn(a: int)` then `return a`: the store of r1 at -8
\* and a 4-byte load from there.
C11_Witness ==
    /\ pc = "body"
    /\ cur.op = "statement"
    /\ cur.stmt = Return(Var("a"))
    /\ instructions = << storex64(-8, R1), movx64(R0, R10), add64(R0, -8),
                         loadx(4, R0, R0, 0), exit >>
    /\ variables["a"] = StackVar(QInt(4, TRUE), -8)

\* The stores to the frame among the instructions of a sequence.
FrameStores(is) ==
    { i \in 1..Len(is) :
        /\ is[i].op \in {"store8", "store16", "store32", "store64", "storex64"}
        /\ is[i].dst = R10 }

\* C12: lowering a return statement, with or without a value, or a call
\* statement, whether it succeeds or fails, leaves the stack counter and
\* the table as they were, asks for no stack and emits no store to the
\* frame.
C12_ReturnAndCallKeepFrame ==
    [][ (StatementStep /\ cur'.stmt.kind \in {"return", "callstmt"}) =>
          /\ stack' = stack
          /\ variables' = variables
          /\ pushLog' = <<>>
          /\ bindLog' = <<>>
          /\ FrameStores(Appended) = {} ]_vars

\* A return of a member of a struct argument was lowered on top of the
\* prologue's frame.
C12_Witness ==
    /\ pc = "body"
    /\ cur.op = "statement"
    /\ cur.stmt = Return(LVal(LValue("", "a", <<MemberAccess("iov_len")>>)))
    /\ stack = prev.stack + 8
    /\ instructions[Len(instructions)] = exit
    /\ instructions[Len(instructions) - 1] = loadx(8, R0, R0, 0)

\* The lvalue is `n.f[i]` on a stack-resident struct n whose member f is an
\* array.
IndexesMember(lv) ==
    /\ lv.name \in StackNames
    /\ variables[lv.name].var_type.refs = 0
    /\ variables[lv.name].var_type.base.kind = "struct"
    /\ Len(lv.derefs) = 2
    /\ lv.derefs[1].kind = "member"
    /\ lv.derefs[1].name \in DOMAIN variables[lv.name].var_type.base.members
    /\ lv.derefs[2].kind = "index"
    /\ TypeDB[variables[lv.name].var_type.base.members[lv.derefs[1].name].type_id].base.kind
          = "array"

\* Of such an lvalue: the array member, its byte offset in the struct, the
\* array's element type, and the index.
ArrayMember(lv) == variables[lv.name].var_type.base.members[lv.derefs[1].name]
MemberOffset(lv) == ArrayMember(lv).offset \div 8
ArrayOf(lv) == TypeDB[ArrayMember(lv).type_id].base
ElementType(lv) == TypeDB[ArrayOf(lv).elem]
IndexOf(lv) == lv.derefs[2].element

\* `add64 reg, k`, left out when k is 0.
AddIfPositive(reg, k) == IF k > 0 THEN << add64(reg, k) >> ELSE << >>

\* The statement returns by value an lvalue without prefix.
ReturnsLValue(stmt) ==
    /\ stmt.kind = "return"
    /\ stmt.some
    /\ stmt.value.kind = "lval"
    /\ stmt.value.lval.prefix = ""

\* C13: an index i into an array of n elements is accepted when i <= n,
\* i = n included, adds element_size * i to the address and leaves the
\* element type as the type of the value (the load has its width); i > n
\* is refused with the out-of-bounds error; an index on a value that is not
\* an array is refused.
C13_IndexUpToCount ==
    [][ /\ (StatementStep /\ ReturnsLValue(cur'.stmt)
                /\ IndexesMember(cur'.stmt.value.lval)) =>
              IF IndexOf(cur'.stmt.value.lval) <= ArrayOf(cur'.stmt.value.lval).count
              THEN /\ pc' = "body"
                   /\ Appended =
                         << movx64(R0, R10),
                            add64(R0, SlotLow(cur'.stmt.value.lval.name)) >>
                         \o AddIfPositive(R0, MemberOffset(cur'.stmt.value.lval))
                         \o AddIfPositive(R0, get_size(ElementType(cur'.stmt.value.lval))
                                                  * IndexOf(cur'.stmt.value.lval))
                         \o << loadx(get_size(ElementType(cur'.stmt.value.lval)), R0, R0, 0),
                               exit >>
              ELSE /\ pc' = "idle"
                   /\ result' = "out_of_bounds"
        /\ (StatementStep /\ cur'.stmt.kind = "assign" /\ ~cur'.stmt.type_name.some
                /\ cur'.stmt.right.kind = "imm"
                /\ IndexesMember(cur'.stmt.left)) =>
              IF IndexOf(cur'.stmt.left) <= ArrayOf(cur'.stmt.left).count
              THEN /\ pc' = "body"
                   /\ Len(Appended) = 1
                   /\ StoreWidth(Appended[1]) = get_size(ElementType(cur'.stmt.left))
                   /\ Appended[1].off =
                         SlotLow(cur'.stmt.left.name) + MemberOffset(cur'.stmt.left)
                           + get_size(ElementType(cur'.stmt.left)) * IndexOf(cur'.stmt.left)
              ELSE /\ pc' = "idle"
                   /\ result' = "out_of_bounds"
        /\ (StatementStep /\ ReturnsLValue(cur'.stmt)
                /\ cur'.stmt.value.lval.name \in StackNames
                /\ Len(cur'.stmt.value.lval.derefs) = 1
                /\ cur'.stmt.value.lval.derefs[1].kind = "index"
                /\ variables[cur'.stmt.value.lval.name].var_type.base.kind # "array") =>
              /\ pc' = "idle"
              /\ result' = "index_on_non_array" ]_vars

\* `return a.data[32]` on a 32-element array of 8-byte integers was lowered:
\* the address is moved 256 bytes up, to the end of the array.
C13_Witness ==
    /\ pc = "body"
    /\ cur.op = "statement"
    /\ cur.stmt = Return(LVal(Element(32)))
    /\ Len(instructions) >= 3
    /\ instructions[Len(instructions) - 2] = add64(R0, 256)
    /\ instructions[Len(instructions) - 1] = loadx(8, R0, R0, 0)

\* The lvalue is `n.f` on a stack-resident struct n with a member f.
NamesMember(lv) ==
    /\ lv.name \in StackNames
    /\ variables[lv.name].var_type.refs = 0
    /\ variables[lv.name].var_type.base.kind = "struct"
    /\ Len(lv.derefs) = 1
    /\ lv.derefs[1].kind = "member"
    /\ lv.derefs[1].name \in DOMAIN variables[lv.name].var_type.base.members

\* The statement assigns an immediate, without a type, to `n.f` or `n.f[i]`
\* (i within the array) on a stack-resident struct n.
AssignsImmediateToChain(stmt) ==
    /\ stmt.kind = "assign"
    /\ ~stmt.type_name.some
    /\ stmt.right.kind = "imm"
    /\ \/ NamesMember(stmt.left)
       \/ IndexesMember(stmt.left) /\ IndexOf(stmt.left) <= ArrayOf(stmt.left).count

\* The byte offset and the final type of the chain of such a target.
ChainOffset(lv) ==
    IF Len(lv.derefs) = 1 THEN MemberOffset(lv)
    ELSE MemberOffset(lv) + get_size(ElementType(lv)) * IndexOf(lv)
ChainType(lv) == IF Len(lv.derefs) = 1 THEN TypeDB[ArrayMember(lv).type_id] ELSE ElementType(lv)

InitialisesAggregate(stmt) ==
    /\ stmt.kind = "assign"
    /\ stmt.type_name.some
    /\ ~stmt.type_name.is_ref
    /\ stmt.right.kind = "imm"
    /\ stmt.left.derefs = <<>>
    /\ stmt.left.name \notin DOMAIN variables
    /\ stmt.type_name.name \in NamedTypes
    /\ TypeDB[stmt.type_name.name].base.kind = "struct"
    /\ get_size(TypeDB[stmt.type_name.name]) \notin {1, 2, 4, 8}

\* Byte k (from 0, lowest first) of the immediate of a store.
ByteAt(ins, k) ==
    LET half == IF k >= 4 THEN ins.hi ELSE ins.imm
        shift == IF k % 4 = 0 THEN 1
                 ELSE IF k % 4 = 1 THEN 256
                 ELSE IF k % 4 = 2 THEN 65536 ELSE 16777216
    IN  (half \div shift) % 256

\* The stores of `is` tile the byte v over [low, low + size): they are
\* immediate stores to the frame at consecutive increasing offsets from
\* low, of widths that never grow, size \div 8 of them 8 bytes wide and at
\* most one of each smaller width; every byte of the range is written
\* exactly once, with v, and no byte outside it is written.
TilesRange(is, low, size, v) ==
    /\ Len(is) >= 1
    /\ \A i \in 1..Len(is) :
          /\ StoreWidth(is[i]) > 0
          /\ is[i].dst = R10
          /\ low <= is[i].off
          /\ is[i].off + StoreWidth(is[i]) <= low + size
          /\ \A k \in 0..(StoreWidth(is[i]) - 1) : ByteAt(is[i], k) = v
          /\ i = 1 => is[i].off = low
          /\ i > 1 =>
                /\ is[i].off = is[i - 1].off + StoreWidth(is[i - 1])
                /\ StoreWidth(is[i]) <= StoreWidth(is[i - 1])
    /\ Cardinality({ i \in 1..Len(is) : StoreWidth(is[i]) = 8 }) = size \div 8
    /\ \A w \in {1, 2, 4} : Cardinality({ i \in 1..Len(is) : StoreWidth(is[i]) = w }) <= 1
    /\ \A b \in low..(low + size - 1) :
          Cardinality({ i \in 1..Len(is) :
                          is[i].off <= b /\ b < is[i].off + StoreWidth(is[i]) }) = 1

\* C15: initialising a new variable whose size s is not 1, 2, 4 or 8 from a
\* literal fails with the bad-immediate error when the literal is above
\* 127; otherwise, the frame having room, it allocates s bytes and tiles
\* the literal's byte over exactly the new slot, greedily in 8-, 4-, 2- and
\* 1-byte stores.
C15_TiledInitialiser ==
    [][ (StatementStep /\ InitialisesAggregate(cur'.stmt)
             /\ stack + get_size(TypeDB[cur'.stmt.type_name.name]) <= 512) =>
          IF cur'.stmt.right.imm > 127
          THEN /\ pc' = "idle"
               /\ result' = "immediate"
               /\ Appended = <<>>
               /\ variables' = variables
          ELSE /\ pc' = "body"
               /\ stack' = stack + get_size(TypeDB[cur'.stmt.type_name.name])
               /\ TilesRange(Appended, -stack', get_size(TypeDB[cur'.stmt.type_name.name]),
                             cur'.stmt.right.imm)
               /\ variables' =
                     Insert(variables, cur'.stmt.left.name,
                            StackVar(TypeDB[cur'.stmt.type_name.name], -stack')) ]_vars

\* `b: s15 = 1` was lowered: an 8-, a 4-, a 2- and a 1-byte store of the
\* byte 1 over the 15 bytes of b.
C15_Witness ==
    /\ pc = "body"
    /\ cur.op = "statement"
    /\ cur.stmt = Assignment(Name("b"), TypeDecl("s15", FALSE), Imm(1))
    /\ Len(instructions) >= 4
    /\ SubSeq(instructions, Len(instructions) - 3, Len(instructions))
          = << store64(-stack, I64(16843009, 16843009)),
               store(4, 8 - stack, 16843009),
               store(2, 12 - stack, 257),
               store(1, 14 - stack, 1) >>

\* The statement assigns from a call to a new name or, without a type, to
\* the bare name of a stack-resident variable.
AssignsCall(stmt) ==
    /\ stmt.kind = "assign"
    /\ stmt.right.kind = "call"
    /\ stmt.left.derefs = <<>>
    /\ \/ stmt.left.name \notin DOMAIN variables
       \/ stmt.left.name \in StackNames /\ ~stmt.type_name.some
    /\ stmt.type_name.some => stmt.type_name.name \in NamedTypes

\* The cast type of such an assignment: the type of the variable, the
\* declared type, or the inferred void.
CastType(stmt) ==
    IF stmt.left.name \in DOMAIN variables THEN variables[stmt.left.name].var_type
    ELSE IF stmt.type_name.some THEN DeclaredType(stmt)
    ELSE DefaultType

\* The slot the value of such an assignment goes to: the variable's, or a
\* new one of 8 bytes.
CallDestination(stmt) ==
    IF stmt.left.name \in DOMAIN variables THEN SlotLow(stmt.left.name) ELSE -(stack + 8)

\* C16: an assignment from a helper call whose cast type is not an 8-byte
\* integer fails with nothing emitted, allocated or bound; with an 8-byte
\* integer cast type, a known helper called without arguments and room in
\* the frame, it compiles to the call and one 64-bit store of r0 to the
\* destination slot, a new name getting a new 8-byte slot and the cast type.
C16_CallSourceNeedsU64 ==
    [][ (StatementStep /\ AssignsCall(cur'.stmt)) =>
          IF CastType(cur'.stmt).base.kind # "int" \/ CastType(cur'.stmt).base.size # 8
          THEN /\ pc' = "idle"
               /\ result' = IF CastType(cur'.stmt).base.kind # "int"
                            THEN "call_non_integer" ELSE "call_non_64bit"
               /\ Appended = <<>>
               /\ stack' = stack
               /\ pushLog' = <<>>
               /\ variables' = variables
          ELSE (cur'.stmt.right.name \in DOMAIN HelperIds /\ cur'.stmt.right.args = <<>>
                    /\ stack + 8 <= 512) =>
                  /\ pc' = "body"
                  /\ Appended = << call(HelperIds[cur'.stmt.right.name]),
                                   storex64(CallDestination(cur'.stmt), R0) >>
                  /\ IF cur'.stmt.left.name \in DOMAIN variables
                     THEN stack' = stack /\ variables' = variables
                     ELSE /\ stack' = stack + 8
                          /\ variables' =
                                Insert(variables, cur'.stmt.left.name,
                                       StackVar(CastType(cur'.stmt), -(stack + 8))) ]_vars

\* `b: int = get_current_uid_gid()` was refused: b is not in the table and
\* no call was emitted.
C16_Witness ==
    /\ result = "call_non_64bit"
    /\ cur.op = "statement"
    /\ cur.stmt = Assignment(Name("b"), TypeDecl("int", FALSE), FunctionCall(Uid, <<>>))
    /\ "b" \notin DOMAIN variables
    /\ \A i \in 1..Len(instructions) : instructions[i].op # "call"

\* The shape of a lowered call: the code of argument 1, of argument 2, ...,
\* then the call instruction. The code of an argument that is not a call is
\* a non-empty run of instructions that write its register and call nothing;
\* the code of an argument that is a call is the lowered inner call and then
\* the move of r0 into its register, and nothing else.
RECURSIVE LoweredCall(_, _)
RECURSIVE LoweredArgs(_, _, _)
RECURSIVE LoweredArg(_, _, _)

LoweredCall(s, fc) ==
    /\ Len(s) >= 1
    /\ s[Len(s)] = call(HelperIds[fc.name])
    /\ LoweredArgs(SubSeq(s, 1, Len(s) - 1), fc.args, 1)

LoweredArgs(s, args, i) ==
    IF args = <<>> THEN s = <<>>
    ELSE \E n \in 1..Len(s) :
            /\ LoweredArg(SubSeq(s, 1, n), Head(args), i)
            /\ LoweredArgs(SubSeq(s, n + 1, Len(s)), Tail(args), i + 1)

LoweredArg(s, arg, i) ==
    IF arg.kind = "call"
    THEN /\ s[Len(s)] = movx64(i, R0)
         /\ LoweredCall(SubSeq(s, 1, Len(s) - 1), arg)
    ELSE \A j \in 1..Len(s) : s[j].dst = i /\ s[j].op # "call"

\* The call a statement is or returns.
CallOf(stmt) ==
    IF stmt.kind = "callstmt" THEN stmt.call ELSE stmt.value

IsCallStatement(stmt) ==
    \/ stmt.kind = "callstmt"
    \/ stmt.kind = "return" /\ stmt.some /\ stmt.value.kind = "call"

\* C17: the code of a call statement that compiles is the code of its
\* arguments in declared order, argument i in register r(i), then its call
\* instruction; an argument that is a call is its own complete call and a
\* move of r0 into r(i), with nothing around it that saves the registers of
\* the earlier arguments. A returned call is lowered the same way, before the
\* exit.
C17_ArgumentsInOrder ==
    [][ (StatementStep /\ IsCallStatement(cur'.stmt) /\ pc' # "idle") =>
          IF cur'.stmt.kind = "callstmt"
          THEN LoweredCall(Appended, CallOf(cur'.stmt))
          ELSE /\ Len(Appended) >= 2
               /\ Appended[Len(Appended)] = exit
               /\ LoweredCall(SubSeq(Appended, 1, Len(Appended) - 1),
                              CallOf(cur'.stmt)) ]_vars

\* `get_current_uid_gid(1, get_current_uid_gid(2), a)` compiled with a in
\* the frame: r1 is loaded, the inner call loads r1 again and is moved to r2,
\* r3 is loaded from a, and the outer call follows.
C17_Witness ==
    /\ pc = "body"
    /\ cur.op = "statement"
    /\ cur.stmt = CallStmt(Uid, <<Imm(1), FunctionCall(Uid, <<Imm(2)>>), Var("a")>>)
    /\ "a" \in StackNames
    /\ Len(instructions) >= 8
    /\ LET n == Len(instructions)
       IN  /\ instructions[n] = call(HelperIds[Uid])
           /\ instructions[n - 1].op \in {"loadx8", "loadx16", "loadx32", "loadx64"}
           /\ instructions[n - 1].dst = R3
           /\ instructions[n - 2] = add64(R3, SlotLow("a"))
           /\ instructions[n - 3] = movx64(R3, R10)
           /\ instructions[n - 4] = movx64(R2, R0)
           /\ instructions[n - 5] = call(HelperIds[Uid])
           /\ instructions[n - 6].op = "loadtype" /\ instructions[n - 6].dst = R1
           /\ instructions[n - 6].imm = 2
           /\ instructions[n - 7].op = "loadtype" /\ instructions[n - 7].dst = R1
           /\ instructions[n - 7].imm = 1

\* The line of the message of the compile that failed: every bail! formats
\* self.expr_num as it stands when the error is raised.
Line == expr_num

\* A statement, or the signature, of the running compile has just failed.
StatementFailed == pc = "idle" /\ cur.op = "statement" /\ result \notin {"", "ok"}
SignatureFailed == pc = "idle" /\ cur.op = "compile" /\ result \notin {"", "ok"}

\* The compile began on an instance that had compiled nothing before.
OnFreshInstance ==
    /\ ~prev.ok
    /\ prev.expr_num = 1
    /\ prev.instructions = <<>>
    /\ prev.stack = 0

\* The line counter moves by one with each top-level statement, whatever
\* the statement nests and whether or not it compiles, and with nothing
\* else: not with capture, the signature or the implicit return.
CountsStatements ==
    [][ expr_num' = IF pc = "body" /\ cur'.op = "statement"
                    THEN expr_num + 1 ELSE expr_num ]_vars

\* C18 as stated: the counter moves once per top-level statement only, and
\* the error of the k-th statement of a compile on a fresh instance reports
\* line k.
C18_ReportsStatementIndex ==
    /\ CountsStatements
    /\ []((StatementFailed /\ OnFreshInstance) => Line = nth)

\* C18: the counter moves once per top-level statement only; it stands at 1
\* on a fresh instance and is advanced before the statement is lowered, so
\* the error of the k-th statement reports the counter the compile began with
\* plus k, which is line k + 1 on a fresh instance, and an error of the
\* signature reports the counter the compile began with, line 1 on a fresh
\* instance.
C18_ReportsLineAfterSignature ==
    /\ CountsStatements
    /\ [](StatementFailed => Line = prev.expr_num + nth)
    /\ []((StatementFailed /\ OnFreshInstance) => Line = nth + 1)
    /\ [](SignatureFailed => Line = prev.expr_num)
    /\ []((SignatureFailed /\ OnFreshInstance) => Line = 1)

\* The second statement of the first compile of an instance failed, and the
\* message says line 3.
C18_Witness ==
    /\ StatementFailed
    /\ OnFreshInstance
    /\ nth = 2
    /\ Line = 3

\* The bytes a store to the frame writes.
FrameStoreWidth(ins) == IF ins.op = "storex64" THEN 8 ELSE StoreWidth(ins)

\* C19: every store to the frame emitted for an assignment that compiles to
\* an existing stack variable, through whatever member/index chain it
\* accepts, writes only bytes of that variable's slot and none at or above
\* the frame base.
C19_StoresInsideSlot ==
    [][ (ReassignStep /\ cur'.stmt.left.name \in StackNames /\ pc' = "body") =>
          \A i \in FrameStores(Appended) :
              /\ Appended[i].off >= TargetLow
              /\ Appended[i].off + FrameStoreWidth(Appended[i]) <= TargetHigh + 1
              /\ Appended[i].off + FrameStoreWidth(Appended[i]) <= 0 ]_vars

\* `a: buf = 0` took the whole of a 256-byte frame for a, and `a.data[32] = 5`
\* compiled to an 8-byte store at the frame base, past the 32 elements of
\* a.data.
C19_Witness ==
    /\ pc = "body"
    /\ cur.op = "statement"
    /\ cur.stmt = Assignment(Element(32), NoType, Imm(5))
    /\ "a" \in StackNames
    /\ SlotLow("a") = -256
    /\ SlotHigh("a") = 0
    /\ instructions[Len(instructions)] = store64(0, I64(0, 5))

=============================================================================
